---- MODULE Spec2Model ----
(***************************************************************************)
(* Model of PyTMM's transferMatrix.py: the TransferMatrix class (a handle  *)
(* on a 2x2 complex numpy array) and the forward and inverse solvers.      *)
(*                                                                         *)
(* Numbers are exact Gaussian rationals (a + b i)/d, kept in lowest terms  *)
(* with d > 0, so that equality of tuples is equality of numbers.  The     *)
(* floating-point rounding of numpy is not modelled: "equal" below is      *)
(* exact equality of the values the formulas of the code denote.           *)
(***************************************************************************)
EXTENDS Integers, Sequences, FiniteSets, TLC

VARIABLES objs, arrays, ret, ncalls

vars == <<objs, arrays, ret, ncalls>>

(***************************************************************************)
(* Complex scalars.                                                        *)
(***************************************************************************)
Abs(x) == IF x < 0 THEN -x ELSE x

RECURSIVE GCD(_, _)
GCD(a, b) == IF b = 0 THEN a ELSE GCD(b, a % b)

\* (a + b i)/d in lowest terms, d > 0
Cx(a, b, d) ==
    LET g == GCD(GCD(Abs(a), Abs(b)), Abs(d))
        s == IF d < 0 THEN -1 ELSE 1
    IN  <<(s * a) \div g, (s * b) \div g, (s * d) \div g>>

Zero == Cx(0, 0, 1)
One == Cx(1, 0, 1)
ImagUnit == Cx(0, 1, 1)

CAdd(x, y) == Cx(x[1] * y[3] + y[1] * x[3], x[2] * y[3] + y[2] * x[3], x[3] * y[3])
CNeg(x) == <<-x[1], -x[2], x[3]>>
CSub(x, y) == CAdd(x, CNeg(y))
CMul(x, y) == Cx(x[1] * y[1] - x[2] * y[2], x[1] * y[2] + x[2] * y[1], x[3] * y[3])
\* x / y for y # 0: x * conj(y) / |y|^2
CDiv(x, y) ==
    LET n == y[1] * y[1] + y[2] * y[2]
        p == CMul(x, <<y[1], -y[2], 1>>)
    IN  Cx(p[1] * y[3], p[2] * y[3], p[3] * n)
conj(x) == <<x[1], -x[2], x[3]>>
real(x) == Cx(x[1], 0, x[3])
imag(x) == Cx(x[2], 0, x[3])

\* exp(2 pi i x) for x a real multiple of a quarter turn (4x an integer)
IsQuarterTurns(x) == x[2] = 0 /\ 4 % x[3] = 0
ExpTurns(x) ==
    LET q == ((x[1] * (4 \div x[3])) % 4)
    IN  CASE q = 0 -> One
          [] q = 1 -> ImagUnit
          [] q = 2 -> CNeg(One)
          [] q = 3 -> CNeg(ImagUnit)

(***************************************************************************)
(* numpy arrays: a matrix is a tuple of rows, a vector a tuple of scalars. *)
(***************************************************************************)
RECURSIVE CSum(_, _)
CSum(f, n) == IF n = 0 THEN Zero ELSE CAdd(CSum(f, n - 1), f[n])

\* the tuple <<f[1], ..., f[n]>>, each element computed once
RECURSIVE Tuple(_, _)
Tuple(f, n) == IF n = 0 THEN <<>> ELSE Append(Tuple(f, n - 1), f[n])

\* the element of a one-element set: The({e(x) : x \in {v}}) is e(v), with
\* v computed once
The(S) == CHOOSE x \in S : TRUE

\* numpy.dot of two matrices
dot(A, B) ==
    The({Tuple([i \in 1..Len(a) |->
            Tuple([j \in 1..Len(b[1]) |->
                CSum([k \in 1..Len(b) |-> CMul(a[i][k], b[k][j])], Len(b))],
                Len(b[1]))], Len(a)) :
         a \in {A}, b \in {B}})

identity2 == <<<<One, Zero>>, <<Zero, One>>>>

\* the matrix without row 1 and column j
Minor(A, j) ==
    Tuple([r \in 1..(Len(A) - 1) |->
        Tuple([c \in 1..(Len(A) - 1) |-> A[r + 1][IF c < j THEN c ELSE c + 1]],
              Len(A) - 1)], Len(A) - 1)

RECURSIVE Det(_)
Det(A) ==
    The({IF Len(a) = 1 THEN a[1][1]
         ELSE CSum([j \in 1..Len(a) |->
                      The({IF j % 2 = 1 THEN t ELSE CNeg(t) :
                           t \in {CMul(a[1][j], Det(Minor(a, j)))}})], Len(a)) :
         a \in {A}})

\* lhs with column i replaced by rhs
ReplaceColumn(lhs, i, rhs) ==
    Tuple([r \in 1..Len(lhs) |->
        Tuple([c \in 1..Len(lhs) |-> IF c = i THEN rhs[r] ELSE lhs[r][c]], Len(lhs))],
        Len(lhs))

\* numpy.linalg.solve: the unique solution, or LinAlgError for a singular lhs
solve(lhs, rhs) ==
    The({IF dt = Zero
         THEN [outcome |-> "LinAlgError", value |-> <<>>]
         ELSE [outcome |-> "ok",
               value |-> Tuple([i \in 1..Len(l) |->
                                   CDiv(Det(ReplaceColumn(l, i, r)), dt)], Len(l))] :
         l \in {lhs}, r \in {rhs}, dt \in {Det(lhs)}})

\* numpy.linalg.inv of a 2x2 matrix, or LinAlgError for a singular one
inv(A) ==
    The({IF dt = Zero
         THEN [outcome |-> "LinAlgError", value |-> <<>>]
         ELSE [outcome |-> "ok",
               value |-> <<<<CDiv(a[2][2], dt), CDiv(CNeg(a[1][2]), dt)>>,
                           <<CDiv(CNeg(a[2][1]), dt), CDiv(a[1][1], dt)>>>>] :
         a \in {A}, dt \in {Det(A)}})

(***************************************************************************)
(* The heap: objs[h] is the array that TransferMatrix object h holds in    *)
(* its attribute "matrix", arrays[a] is the value of numpy array a.        *)
(***************************************************************************)
Heap(o, a) == [objs |-> o, arrays |-> a]

\* h.matrix, read
Mat(hp, h) == hp.arrays[hp.objs[h]]

\* TransferMatrix(matrix) for an array that already exists: the object keeps
\* a reference to it, it does not copy
TransferMatrix(hp, a) == Heap(Append(hp.objs, a), hp.arrays)

\* TransferMatrix(value) for a freshly computed array
NewTransferMatrix(hp, m) ==
    Heap(Append(hp.objs, Len(hp.arrays) + 1), Append(hp.arrays, m))

\* self.matrix = value: the attribute is bound to a fresh array
Rebind(hp, self, m) ==
    Heap([hp.objs EXCEPT ![self] = Len(hp.arrays) + 1], Append(hp.arrays, m))

(***************************************************************************)
(* class TransferMatrix                                                    *)
(***************************************************************************)
\* one turn of the loop of structure
structureRight(m, mat) == dot(mat, m)
structureStep(m, mat) == dot(m, mat)

RECURSIVE structureLoop(_, _, _)
structureLoop(ms, i, mat) ==
    IF i > Len(ms) THEN mat
    ELSE structureLoop(ms, i + 1, structureStep(ms[i], mat))

\* structure(*args), on the matrices the arguments hold
structure(ms) == structureLoop(ms, 1, identity2)

\* a layer that shifts no phase
phaseUnit(n, d, wavelength) == One
\* the phase exp(-1j*n*d*2*pi/wavelength)
phase(n, d, wavelength) ==
    ExpTurns(CNeg(CDiv(CMul(n, Cx(d, 0, 1)), Cx(wavelength, 0, 1))))

propagationMatrix(n, d, wavelength) ==
    <<<<phase(n, d, wavelength), Zero>>,
      <<Zero, CDiv(One, phase(n, d, wavelength))>>>>

Two == Cx(2, 0, 1)

layer(n, d, wavelength) ==
    IF n = Zero \/ wavelength = 0
    THEN [outcome |-> "ZeroDivisionError", value |-> <<>>]
    ELSE LET p  == CDiv(CAdd(One, n), CMul(Two, n))
             q  == CDiv(CSub(n, One), CMul(Two, n))
             tp == CDiv(CAdd(One, n), Two)
             tq == CNeg(CDiv(CSub(n, One), Two))
             bottomBoundary == <<<<p, q>>, <<q, p>>>>
             topBoundary == <<<<tp, tq>>, <<tq, tp>>>>
             propagation == propagationMatrix(n, d, wavelength)
         IN  [outcome |-> "ok",
              value |-> structure(<<bottomBoundary, propagation, topBoundary>>)]

boundingLayer(n1, n2) ==
    IF n2 = Zero
    THEN [outcome |-> "ZeroDivisionError", value |-> <<>>]
    ELSE LET p == CDiv(CAdd(n1, n2), CMul(Two, n2))
             q == CDiv(CSub(n2, n1), CMul(Two, n2))
         IN  [outcome |-> "ok", value |-> <<<<p, q>>, <<q, p>>>>]

propagationLayer(n, d, wavelength) ==
    IF wavelength = 0
    THEN [outcome |-> "ZeroDivisionError", value |-> <<>>]
    ELSE [outcome |-> "ok", value |-> propagationMatrix(n, d, wavelength)]

\* the value invert binds to self.matrix
invertedUnitary(m) ==
    [outcome |-> "ok",
     value |-> <<<<conj(m[1][1]), conj(m[2][1])>>, <<conj(m[1][2]), conj(m[2][2])>>>>]
inverted(m) == inv(m)

\* self.invert(): the heap after the call and how the call ended
invertInPlace(hp, self) ==
    LET r == inverted(Mat(hp, self))
    IN  IF r.outcome = "ok"
        THEN [outcome |-> "ok",
              heap |-> Heap(hp.objs, [hp.arrays EXCEPT ![hp.objs[self]] = r.value])]
        ELSE [outcome |-> r.outcome, heap |-> hp]
invert(hp, self) ==
    LET r == inverted(Mat(hp, self))
    IN  IF r.outcome = "ok"
        THEN [outcome |-> "ok", heap |-> Rebind(hp, self, r.value)]
        ELSE [outcome |-> r.outcome, heap |-> hp]

\* self.appendLeft(matrix)
appendLeft(hp, self, matrix) ==
    [outcome |-> "ok", heap |-> Rebind(hp, self, dot(Mat(hp, matrix), Mat(hp, self)))]

\* self.appendRight(matrix)
appendRight(hp, self, matrix) ==
    [outcome |-> "ok", heap |-> Rebind(hp, self, dot(Mat(hp, self), Mat(hp, matrix)))]

(***************************************************************************)
(* The solvers.                                                            *)
(***************************************************************************)
\* solvePropagation(transferMatrix, incidentField), on transferMatrix.matrix;
\* the value is <<reflectance, transmittance>>
solvePropagationSwapped(T, incidentField) ==
    LET lhs == <<<<T[1][2], CNeg(One)>>, <<T[2][2], Zero>>>>
        rhs == <<CMul(CNeg(T[1][1]), incidentField),
                 CMul(CNeg(T[2][1]), incidentField)>>
        res == solve(lhs, rhs)
    IN  IF res.outcome = "ok"
        THEN [outcome |-> "ok", value |-> <<res.value[2], res.value[1]>>]
        ELSE res
solvePropagation(T, incidentField) ==
    LET lhs == <<<<T[1][2], CNeg(One)>>, <<T[2][2], Zero>>>>
        rhs == <<CMul(CNeg(T[1][1]), incidentField),
                 CMul(CNeg(T[2][1]), incidentField)>>
        res == solve(lhs, rhs)
    IN  IF res.outcome = "ok"
        THEN [outcome |-> "ok", value |-> <<res.value[1], res.value[2]>>]
        ELSE res

\* the same correction done with the objects' own invert(), which binds the
\* inverse to the bounding objects
unboundInverting(hp, matrix, bottomMat, topMat) ==
    LET b == invert(hp, bottomMat)
        t == invert(b.heap, topMat)
    IN  IF b.outcome # "ok" THEN [outcome |-> b.outcome, value |-> <<>>, heap |-> hp]
        ELSE IF t.outcome # "ok"
             THEN [outcome |-> t.outcome, value |-> <<>>, heap |-> b.heap]
        ELSE [outcome |-> "ok",
              value |-> dot(dot(Mat(t.heap, bottomMat), matrix), Mat(t.heap, topMat)),
              heap |-> t.heap]
\* the correction for the bounding matrices that ends both reciprocal
\* solvers: inv(bottomMat.matrix) . matrix . inv(topMat.matrix)
unbound(hp, matrix, bottomMat, topMat) ==
    The({IF ib.outcome # "ok" THEN [outcome |-> ib.outcome, value |-> <<>>, heap |-> hp]
         ELSE IF it.outcome # "ok"
              THEN [outcome |-> it.outcome, value |-> <<>>, heap |-> hp]
         ELSE [outcome |-> "ok",
               value |-> dot(dot(ib.value, matrix), it.value),
               heap |-> hp] :
         ib \in {inv(Mat(hp, bottomMat))}, it \in {inv(Mat(hp, topMat))}})

reciprocalMatrix(transmittance, reflectance) ==
    <<<<CDiv(One, conj(transmittance)), CDiv(reflectance, transmittance)>>,
      <<conj(CDiv(reflectance, transmittance)), CDiv(One, transmittance)>>>>

\* the assert moved below the computation: for a zero transmittance the
\* inversions are tried first
findReciprocalTransferMatrixLateAssert(hp, transmittance, reflectance, bottomMat, topMat) ==
    LET u == unbound(hp, identity2, bottomMat, topMat)
    IN  IF u.outcome # "ok" THEN u
        ELSE IF transmittance = Zero
             THEN [outcome |-> "AssertionError", value |-> <<>>, heap |-> hp]
        ELSE unbound(hp, reciprocalMatrix(transmittance, reflectance), bottomMat, topMat)
findReciprocalTransferMatrix(hp, transmittance, reflectance, bottomMat, topMat) ==
    IF transmittance = Zero
    THEN [outcome |-> "AssertionError", value |-> <<>>, heap |-> hp]
    ELSE unbound(hp, reciprocalMatrix(transmittance, reflectance), bottomMat, topMat)

findReciprocalTransferMatrixLegacy(hp, transmittance, reflectance, bottomMat, topMat) ==
    LET re == real(reflectance)
        im == imag(reflectance)
        lhs == <<<<One, Zero, re, im>>,
                 <<Zero, One, im, CNeg(re)>>,
                 <<re, im, One, Zero>>,
                 <<im, CNeg(re), Zero, One>>>>
        rhs == <<real(transmittance), imag(transmittance), Zero, Zero>>
        j(x) == CMul(ImagUnit, x)
    IN  The({IF res.outcome # "ok"
             THEN [outcome |-> res.outcome, value |-> <<>>, heap |-> hp]
             ELSE The({unbound(hp, matrix, bottomMat, topMat) :
                        matrix \in {<<<<CAdd(res.value[1], j(res.value[2])),
                                        CSub(res.value[3], j(res.value[4]))>>,
                                      <<CAdd(res.value[3], j(res.value[4])),
                                        CSub(res.value[1], j(res.value[2]))>>>>}}) :
             res \in {solve(lhs, rhs)}})

findGeneralizedTransferMatrix(hp, transmitance1, reflectance1, transmitance2, reflectance2, bottomMat1, topMat1, bottomMat2, topMat2) ==
    The({
        IF ib1.outcome # "ok" THEN [outcome |-> ib1.outcome, value |-> <<>>, heap |-> hp]
        ELSE IF ib2.outcome # "ok"
             THEN [outcome |-> ib2.outcome, value |-> <<>>, heap |-> hp]
        ELSE The({
            LET rhs == <<a12[1][1], a34[1][1], a12[2][1], a34[2][1]>>
                lhs == <<<<b12[1][1], b12[2][1], Zero, Zero>>,
                         <<b34[1][1], b34[2][1], Zero, Zero>>,
                         <<Zero, Zero, b12[1][1], b12[2][1]>>,
                         <<Zero, Zero, b34[1][1], b34[2][1]>>>>
            IN  The({IF res.outcome # "ok"
                     THEN [outcome |-> res.outcome, value |-> <<>>, heap |-> hp]
                     ELSE [outcome |-> "ok",
                           value |-> <<<<res.value[1], res.value[3]>>,
                                       <<res.value[2], res.value[4]>>>>,
                           heap |-> hp] :
                     res \in {solve(lhs, rhs)}}) :
            a12 \in {dot(ib1.value, <<<<transmitance1>>, <<Zero>>>>)},
            a34 \in {dot(ib2.value, <<<<transmitance2>>, <<Zero>>>>)},
            b12 \in {dot(Mat(hp, topMat1), <<<<One>>, <<reflectance1>>>>)},
            b34 \in {dot(Mat(hp, topMat2), <<<<One>>, <<reflectance2>>>>)}}) :
        ib1 \in {inv(Mat(hp, bottomMat1))}, ib2 \in {inv(Mat(hp, bottomMat2))}})

(***************************************************************************)
(* Inputs.                                                                 *)
(***************************************************************************)
MaxCalls == 2
MaxArgs == 1
MaxFactors == 3
MaxThickness == 3

shear == <<<<One, One>>, <<Zero, One>>>>
twist == <<<<One, Zero>>, <<ImagUnit, Two>>>>
singular == <<<<One, One>>, <<One, One>>>>
swap == <<<<Zero, One>>, <<One, Zero>>>>
turn == <<<<ImagUnit, Zero>>, <<Zero, CNeg(ImagUnit)>>>>

\* refractive indices, thicknesses and wavelengths; a layer's phase is
\* computed exactly for the angles that are whole quarter turns
RefractiveIndices == {Zero, One, Cx(1, 0, 2), Cx(3, 0, 2), Two, Cx(3, 0, 1), Cx(1, 1, 1)}
Wavelengths == {0, 1, 2, 4}
LayerInputs ==
    {x \in RefractiveIndices \X (0..MaxThickness) \X Wavelengths :
        x[3] = 0 \/ IsQuarterTurns(CDiv(CMul(x[1], Cx(x[2], 0, 1)), Cx(x[3], 0, 1)))}

\* the sequences of at most n elements of S
RECURSIVE SeqsUpTo(_, _)
SeqsUpTo(S, n) ==
    IF n = 0 THEN {<<>>}
    ELSE LET shorter == SeqsUpTo(S, n - 1)
         IN  shorter \cup {Append(q, x) : q \in {t \in shorter : Len(t) = n - 1}, x \in S}

(***************************************************************************)
(* Calls.  A caller holds TransferMatrix objects and calls the static      *)
(* methods, the methods and the solvers; ret records the last call.        *)
(***************************************************************************)
NoCall == [op |-> "none", self |-> 0, args |-> <<>>, outcome |-> "ok",
           value |-> <<>>, old |-> 0]

Call(op, self, args, outcome, value, old) ==
    [op |-> op, self |-> self, args |-> args, outcome |-> outcome,
     value |-> value, old |-> old]

here == Heap(objs, arrays)

\* TransferMatrix(m) on an array the caller already has
CallConstruct(a) ==
    /\ objs' = TransferMatrix(here, a).objs
    /\ arrays' = TransferMatrix(here, a).arrays
    /\ ret' = Call("TransferMatrix", 0, <<a>>, "ok", <<Len(objs) + 1>>, 0)
    /\ ncalls' = ncalls + 1

CallLayer(n, d, wavelength) ==
    /\ LET r == layer(n, d, wavelength)
           hp == IF r.outcome = "ok" THEN NewTransferMatrix(here, r.value) ELSE here
       IN  /\ objs' = hp.objs
           /\ arrays' = hp.arrays
           /\ ret' = Call("layer", 0, <<n, d, wavelength>>, r.outcome,
                          IF r.outcome = "ok" THEN <<Len(hp.objs)>> ELSE <<>>, 0)
    /\ ncalls' = ncalls + 1

CallStructure(args) ==
    /\ LET hp == NewTransferMatrix(here, structure([i \in 1..Len(args) |-> Mat(here, args[i])]))
       IN  /\ objs' = hp.objs
           /\ arrays' = hp.arrays
           /\ ret' = Call("structure", 0, args, "ok", <<Len(hp.objs)>>, 0)
    /\ ncalls' = ncalls + 1

CallInvert(self) ==
    /\ LET r == invert(here, self)
       IN  /\ objs' = r.heap.objs
           /\ arrays' = r.heap.arrays
           /\ ret' = Call("invert", self, <<>>, r.outcome, <<>>, objs[self])
    /\ ncalls' = ncalls + 1

CallAppendLeft(self, matrix) ==
    /\ LET r == appendLeft(here, self, matrix)
       IN  /\ objs' = r.heap.objs
           /\ arrays' = r.heap.arrays
           /\ ret' = Call("appendLeft", self, <<matrix>>, r.outcome, <<>>, objs[self])
    /\ ncalls' = ncalls + 1

CallAppendRight(self, matrix) ==
    /\ LET r == appendRight(here, self, matrix)
       IN  /\ objs' = r.heap.objs
           /\ arrays' = r.heap.arrays
           /\ ret' = Call("appendRight", self, <<matrix>>, r.outcome, <<>>, objs[self])
    /\ ncalls' = ncalls + 1

(***************************************************************************)
(* Spec: any caller of the class, for MaxCalls calls.  It starts with two  *)
(* objects and three arrays.                                               *)
(***************************************************************************)
Init ==
    /\ arrays = <<shear, twist, singular>>
    /\ objs = <<1, 2>>
    /\ ret = NoCall
    /\ ncalls = 0

Next ==
    \/ /\ ncalls < MaxCalls
       /\ \E a \in DOMAIN arrays : CallConstruct(a)
    \/ /\ ncalls < MaxCalls
       /\ \E args \in SeqsUpTo(DOMAIN objs, MaxArgs) : CallStructure(args)
    \/ /\ ncalls < MaxCalls
       /\ \E self \in DOMAIN objs : CallInvert(self)
    \/ /\ ncalls < MaxCalls
       /\ \E self \in DOMAIN objs, matrix \in DOMAIN objs : CallAppendLeft(self, matrix)
    \/ /\ ncalls < MaxCalls
       /\ \E self \in DOMAIN objs, matrix \in DOMAIN objs : CallAppendRight(self, matrix)

Spec == Init /\ [][Next]_vars

(***************************************************************************)
(* SpecCompose: one call of structure on any sequence of at most           *)
(* MaxFactors of five objects.                                             *)
(***************************************************************************)
InitCompose ==
    /\ arrays = <<shear, twist, singular, swap, turn>>
    /\ objs = <<1, 2, 3, 4, 5>>
    /\ ret = NoCall
    /\ ncalls = 0

NextCompose ==
    /\ ncalls = 0
    /\ \E args \in SeqsUpTo(DOMAIN objs, MaxFactors) : CallStructure(args)

SpecCompose == InitCompose /\ [][NextCompose]_vars

(***************************************************************************)
(* SpecLayer: a caller builds a layer L, a second object L2 on L's array,  *)
(* inverts L2 and composes the two, in either order.                       *)
(***************************************************************************)
InitLayer ==
    /\ arrays = <<>>
    /\ objs = <<>>
    /\ ret = NoCall
    /\ ncalls = 0

NextLayer ==
    \/ /\ ncalls = 0
       /\ \E x \in LayerInputs : CallLayer(x[1], x[2], x[3])
    \/ /\ ret.op = "layer" /\ ret.outcome = "ok"
       /\ CallConstruct(objs[ret.value[1]])
    \/ /\ ret.op = "TransferMatrix"
       /\ CallInvert(ret.value[1])
    \/ /\ ret.op = "invert" /\ ret.outcome = "ok"
       /\ \E args \in {<<1, 2>>, <<2, 1>>} : CallStructure(args)

SpecLayer == InitLayer /\ [][NextLayer]_vars

(***************************************************************************)
(* SpecSolve: any caller of the solvers.  The heap holds the eight default *)
(* bounding objects, made once when the functions are defined, each on an  *)
(* identity array of its own, and three objects the caller passes as       *)
(* bounding matrices.  SpecSolve is one call, on any input.                *)
(***************************************************************************)
reciprocalDefaults == <<1, 2>>
legacyDefaults == <<3, 4>>
generalizedDefaults == <<5, 6, 7, 8>>
DefaultObjects == 1..8
BoundObjects == {9, 10, 11}

SolveHeap ==
    Heap(<<1, 2, 3, 4, 5, 6, 7, 8, 9, 10, 11>>,
         <<identity2, identity2, identity2, identity2, identity2, identity2,
           identity2, identity2, shear, twist, singular>>)

\* |x|^2
AbsSquared(x) == CMul(x, conj(x))

IncidentFields == {One, Zero, ImagUnit, Cx(1, -1, 2)}

\* every matrix with entries 0, 1, i, 2
Entries == {Zero, One, ImagUnit, Two}
GeneralMatrices ==
    {<<<<a, b>>, <<c, d>>>> : a \in Entries, b \in Entries, c \in Entries, d \in Entries}

\* every matrix [[a, conj(c)], [c, conj(a)]] of determinant 1 over Amplitudes
Amplitudes ==
    {Zero, One, ImagUnit, CNeg(One), Cx(5, 0, 4), Cx(0, 5, 4), Cx(3, 0, 4),
     Cx(0, 3, 4), Cx(-3, 0, 4), Cx(5, 0, 3), Cx(4, 0, 3), Cx(0, 4, 3)}
ReciprocalMatrices ==
    {<<<<x[1], conj(x[2])>>, <<x[2], conj(x[1])>>>> :
        x \in {y \in Amplitudes \X Amplitudes :
                  CSub(AbsSquared(y[1]), AbsSquared(y[2])) = One}}

LayerMatrices ==
    {layer(x[1], x[2], x[3]).value :
        x \in {y \in LayerInputs : layer(y[1], y[2], y[3]).outcome = "ok"}}

\* the matrices whose two measurements the generalized solver is given
UnderlyingMatrices == {shear, twist, turn}

\* structure(topMat, M, bottomMat), as the caller of the solvers builds it
BoundedStructure(M, bottomMat, topMat) ==
    structure(<<Mat(SolveHeap, topMat), M, Mat(SolveHeap, bottomMat)>>)

\* measurements: a transmittance, a reflectance and the bounding objects
Measurement(t, r, bottomMat, topMat) ==
    [t |-> t, r |-> r, bottomMat |-> bottomMat, topMat |-> topMat]

MeasuredThrough(bottoms, tops) ==
    {Measurement(x[4].value[2], x[4].value[1], x[2], x[3]) :
        x \in {y \in {<<M, b, t, solvePropagation(BoundedStructure(M, b, t), One)>> :
                        M \in UnderlyingMatrices, b \in bottoms, t \in tops} :
                  y[4].outcome = "ok"}}

Measurements1 ==
    MeasuredThrough({generalizedDefaults[1], 9}, {generalizedDefaults[2], 10})
        \cup {Measurement(One, Zero, 11, generalizedDefaults[2]),
              Measurement(Zero, ImagUnit, generalizedDefaults[1], 11)}
Measurements2 ==
    MeasuredThrough({generalizedDefaults[3], 9, 10}, {generalizedDefaults[4], 9})
        \cup {Measurement(One, Zero, 11, generalizedDefaults[4]),
              Measurement(Zero, ImagUnit, generalizedDefaults[3], 11)}

TransferMatrices ==
    GeneralMatrices \cup ReciprocalMatrices \cup LayerMatrices
        \cup {BoundedStructure(M, b, t) :
                 M \in UnderlyingMatrices, b \in BoundObjects, t \in BoundObjects}

\* transmittances and reflectances
Coefficients ==
    {Zero, One, CNeg(One), ImagUnit, CNeg(ImagUnit),
     Cx(3, 0, 5), Cx(-3, 0, 5), Cx(0, 3, 5), Cx(0, -3, 5),
     Cx(4, 0, 5), Cx(-4, 0, 5), Cx(0, 4, 5), Cx(0, -4, 5)}

\* the pairs with |t|^2 + |r|^2 = 1, and two that are not reciprocal
LegacyPairs ==
    {p \in Coefficients \X Coefficients :
        CAdd(AbsSquared(p[1]), AbsSquared(p[2])) = One}
        \cup {<<One, One>>, <<Zero, Zero>>}

FewMeasurements1 ==
    {m \in Measurements1 : m.t \in {Zero, One} /\ m.bottomMat # 9 /\ m.topMat # 10}
FewMeasurements2 ==
    {m \in Measurements2 : m.t \in {Zero, One} /\ m.bottomMat # 9 /\ m.topMat # 9}

InitSolve ==
    /\ objs = SolveHeap.objs
    /\ arrays = SolveHeap.arrays
    /\ ret = NoCall
    /\ ncalls = 0

\* solvePropagation(TransferMatrix(T), incidentField)
CallSolvePropagation(T, incidentField) ==
    /\ LET r == solvePropagation(T, incidentField)
       IN  ret' = Call("solvePropagation", 0, <<T, incidentField>>, r.outcome, r.value, 0)
    /\ UNCHANGED <<objs, arrays>>
    /\ ncalls' = ncalls + 1

CallFindReciprocal(t, r, bottomMat, topMat) ==
    /\ LET f == findReciprocalTransferMatrix(here, t, r, bottomMat, topMat)
       IN  /\ ret' = Call("findReciprocalTransferMatrix", 0, <<t, r, bottomMat, topMat>>,
                          f.outcome, f.value, 0)
           /\ objs' = f.heap.objs
           /\ arrays' = f.heap.arrays
    /\ ncalls' = ncalls + 1

CallFindReciprocalLegacy(t, r, bottomMat, topMat) ==
    /\ LET f == findReciprocalTransferMatrixLegacy(here, t, r, bottomMat, topMat)
       IN  /\ ret' = Call("findReciprocalTransferMatrixLegacy", 0,
                          <<t, r, bottomMat, topMat>>, f.outcome, f.value, 0)
           /\ objs' = f.heap.objs
           /\ arrays' = f.heap.arrays
    /\ ncalls' = ncalls + 1

CallFindGeneralized(m1, m2) ==
    /\ LET f == findGeneralizedTransferMatrix(here, m1.t, m1.r, m2.t, m2.r,
                    m1.bottomMat, m1.topMat, m2.bottomMat, m2.topMat)
       IN  /\ ret' = Call("findGeneralizedTransferMatrix", 0,
                          <<m1.t, m1.r, m2.t, m2.r,
                            m1.bottomMat, m1.topMat, m2.bottomMat, m2.topMat>>,
                          f.outcome, f.value, 0)
           /\ objs' = f.heap.objs
           /\ arrays' = f.heap.arrays
    /\ ncalls' = ncalls + 1

NextSolve ==
    \/ /\ ncalls = 0
       /\ \E T \in TransferMatrices, s \in IncidentFields : CallSolvePropagation(T, s)
    \/ /\ ncalls = 0
       /\ \E t \in Coefficients, r \in Coefficients,
             b \in BoundObjects \cup {reciprocalDefaults[1]},
             tp \in BoundObjects \cup {reciprocalDefaults[2]} :
               CallFindReciprocal(t, r, b, tp)
    \/ /\ ncalls = 0
       /\ \E p \in LegacyPairs,
             b \in BoundObjects \cup {legacyDefaults[1]},
             tp \in BoundObjects \cup {legacyDefaults[2]} :
               CallFindReciprocalLegacy(p[1], p[2], b, tp)
    \/ /\ ncalls = 0
       /\ \E m1 \in Measurements1, m2 \in Measurements2 : CallFindGeneralized(m1, m2)

SpecSolve == InitSolve /\ [][NextSolve]_vars

(***************************************************************************)
(* SpecDefaults: any sequence of MaxCalls calls of the three inverse       *)
(* solvers, each with bounding matrices passed or left out.                *)
(***************************************************************************)
FewPairs == {<<One, Zero>>, <<Cx(3, 0, 5), Cx(0, 4, 5)>>, <<Zero, One>>, <<ImagUnit, One>>}
FewReciprocalPairs == {<<One, Zero>>, <<Cx(3, 0, 5), Cx(0, 4, 5)>>}

NextDefaults ==
    \/ /\ ncalls < MaxCalls
       /\ \E p \in FewPairs,
             b \in {reciprocalDefaults[1], 9, 11},
             tp \in {reciprocalDefaults[2], 10, 11} :
               CallFindReciprocal(p[1], p[2], b, tp)
    \/ /\ ncalls < MaxCalls
       /\ \E p \in FewReciprocalPairs,
             b \in {legacyDefaults[1], 9, 11},
             tp \in {legacyDefaults[2], 10} :
               CallFindReciprocalLegacy(p[1], p[2], b, tp)
    \/ /\ ncalls < MaxCalls
       /\ \E m1 \in FewMeasurements1, m2 \in FewMeasurements2 : CallFindGeneralized(m1, m2)

SpecDefaults == InitSolve /\ [][NextDefaults]_vars

(***************************************************************************)
(* Properties of the class.                                                *)
(***************************************************************************)
\* the matrices a sequence of objects holds
Matrices(hp, hs) == Tuple([i \in 1..Len(hs) |-> Mat(hp, hs[i])], Len(hs))

\* m_k . ... . m_1, taking the first factor off: P(m_1..m_k) = P(m_2..m_k) . m_1
RECURSIVE ProductLastToFirst(_)
ProductLastToFirst(ms) ==
    IF Len(ms) = 0 THEN identity2
    ELSE dot(ProductLastToFirst(Tail(ms)), Head(ms))

\* the heap after self.appendLeft(hs[i]), ..., self.appendLeft(hs[Len(hs)])
RECURSIVE AppendLeftAll(_, _, _, _)
AppendLeftAll(hp, self, hs, i) ==
    IF i > Len(hs) THEN hp
    ELSE AppendLeftAll(appendLeft(hp, self, hs[i]).heap, self, hs, i + 1)

\* C1: structure(m_1, ..., m_k) holds m_k . ... . m_1, which is also what an
\* object that starts as the identity holds after appendLeft(m_1), ...,
\* appendLeft(m_k); for k = 0 that is the identity and for k = 2 it is
\* dot(B.matrix, A.matrix).
C1_StructureIsProduct ==
    ret.op = "structure" =>
        LET ms == Matrices(here, ret.args)
            res == Mat(here, ret.value[1])
            fresh == NewTransferMatrix(here, identity2)
            chained == AppendLeftAll(fresh, Len(fresh.objs), ret.args, 1)
        IN  /\ res = ProductLastToFirst(ms)
            /\ res = Mat(chained, Len(fresh.objs))
            /\ Len(ms) = 0 => res = identity2
            /\ Len(ms) = 2 => res = dot(ms[2], ms[1])

\* structure was called on three objects whose product depends on the order
C1_Witness ==
    /\ ret.op = "structure"
    /\ Len(ret.args) = 3
    /\ LET ms == Matrices(here, ret.args)
       IN  Mat(here, ret.value[1]) # dot(dot(ms[1], ms[2]), ms[3])

\* C2: a call changes the matrix of no object but its receiver: structure
\* and TransferMatrix change none, invert, appendLeft and appendRight change
\* at most self, also when another object was built on the same array.
C2_OnlyReceiverChanges ==
    [][\A h \in DOMAIN objs :
          arrays'[objs'[h]] # arrays[objs[h]] =>
              /\ ret'.op \in {"invert", "appendLeft", "appendRight"}
              /\ ret'.self = h]_vars

\* a method changed its receiver while another object still holds the array
\* the receiver held before the call, unchanged
C2_Witness ==
    /\ ret.op \in {"invert", "appendLeft"}
    /\ ret.outcome = "ok"
    /\ \E h \in DOMAIN objs :
          /\ h # ret.self
          /\ objs[h] = ret.old
          /\ Mat(here, h) # Mat(here, ret.self)

\* C9: invert succeeds on an object that holds the matrix of a layer, and
\* the layer composed with the inverted object, in either order, is the
\* identity.
C9_LayerTimesInverse ==
    /\ ret.op = "invert" => ret.outcome = "ok"
    /\ ret.op = "structure" => Mat(here, ret.value[1]) = identity2

\* the composition was made for a layer that is not diagonal and whose
\* phase is not real
C9_Witness ==
    /\ ret.op = "structure"
    /\ ret.args = <<2, 1>>
    /\ Mat(here, 1)[1][2] # Zero
    /\ Mat(here, 1)[1][1][2] # 0

(***************************************************************************)
(* Properties of the solvers.                                              *)
(***************************************************************************)
\* C3: findReciprocalTransferMatrix with transmittance 0 ends in the
\* assertion's error and returns no matrix, for every reflectance and every
\* pair of bounding matrices, invertible or not.
C3_ZeroTransmittanceRejected ==
    (ret.op = "findReciprocalTransferMatrix" /\ ret.args[1] = Zero) =>
        /\ ret.outcome = "AssertionError"
        /\ ret.value = <<>>

\* the call had a zero transmittance and a bounding matrix with no inverse
C3_Witness ==
    /\ ret.op = "findReciprocalTransferMatrix"
    /\ ret.args[1] = Zero
    /\ ret.args[2] # Zero
    /\ inv(Mat(here, ret.args[3])).outcome = "LinAlgError"
    /\ ret.outcome = "AssertionError"

\* C4: when findReciprocalTransferMatrix is given, with the default bounding
\* matrices, the transmittance and reflectance solvePropagation finds for a
\* reciprocal matrix M under a unit incident field, it returns M.
C4_ReciprocalRoundTrip ==
    (/\ ret.op = "findReciprocalTransferMatrix"
     /\ ret.args[3] = reciprocalDefaults[1]
     /\ ret.args[4] = reciprocalDefaults[2]) =>
        \A M \in ReciprocalMatrices :
            LET p == solvePropagation(M, One)
            IN  (p.outcome = "ok" /\ p.value = <<ret.args[2], ret.args[1]>>) =>
                    (ret.outcome = "ok" /\ ret.value = M)

\* C5: on a reciprocal pair (t # 0, |t|^2 + |r|^2 = 1) and invertible
\* bounding matrices, findReciprocalTransferMatrixLegacy returns what
\* findReciprocalTransferMatrix returns on the same arguments.
C5_LegacyAgrees ==
    (/\ ret.op = "findReciprocalTransferMatrixLegacy"
     /\ ret.args[1] # Zero
     /\ CAdd(AbsSquared(ret.args[1]), AbsSquared(ret.args[2])) = One
     /\ inv(Mat(here, ret.args[3])).outcome = "ok"
     /\ inv(Mat(here, ret.args[4])).outcome = "ok") =>
        LET f == findReciprocalTransferMatrix(here, ret.args[1], ret.args[2],
                                              ret.args[3], ret.args[4])
        IN  /\ ret.outcome = f.outcome
            /\ ret.value = f.value

\* solvePropagation finds r and t for M between the two bounding matrices
Measured(M, t, r, bottomMat, topMat) ==
    LET p == solvePropagation(BoundedStructure(M, bottomMat, topMat), One)
    IN  p.outcome = "ok" /\ p.value = <<r, t>>

\* C6: when findGeneralizedTransferMatrix is given two measurements that
\* solvePropagation finds for the same matrix M between invertible bounding
\* matrices, and its system has a solution, it returns M.
C6_GeneralizedRoundTrip ==
    (ret.op = "findGeneralizedTransferMatrix" /\ ret.outcome = "ok") =>
        \A M \in UnderlyingMatrices :
            (/\ \A i \in 5..8 : inv(Mat(here, ret.args[i])).outcome = "ok"
             /\ Measured(M, ret.args[1], ret.args[2], ret.args[5], ret.args[6])
             /\ Measured(M, ret.args[3], ret.args[4], ret.args[7], ret.args[8])) =>
                ret.value = M

\* C7 as stated: solvePropagation on layer(1, d, wavelength) with a unit
\* incident field returns reflectance 0 and transmittance 1.
C7_MatchedLayerTransmitsOne ==
    ret.op = "solvePropagation" =>
        \A x \in LayerInputs :
            (/\ x[1] = One
             /\ x[3] # 0
             /\ ret.args = <<layer(x[1], x[2], x[3]).value, One>>) =>
                /\ ret.outcome = "ok"
                /\ ret.value = <<Zero, One>>

\* C7: solvePropagation on layer(1, d, wavelength), wavelength not 0, with a
\* unit incident field returns reflectance 0 and the transmittance
\* exp(-i 2 pi d / wavelength), the phase of the layer.
C7_MatchedLayerTransmitsPhase ==
    ret.op = "solvePropagation" =>
        \A x \in LayerInputs :
            (/\ x[1] = One
             /\ x[3] # 0
             /\ ret.args = <<layer(x[1], x[2], x[3]).value, One>>) =>
                /\ ret.outcome = "ok"
                /\ ret.value = <<Zero, ExpTurns(Cx(-x[2], 0, x[3]))>>

\* solvePropagation was called on a layer of index 1 a quarter of a
\* wavelength thick
C7_Witness ==
    /\ ret.op = "solvePropagation"
    /\ ret.args = <<layer(One, 1, 4).value, One>>
    /\ ret.value = <<Zero, CNeg(ImagUnit)>>

\* C8: solvePropagation(T, s) ends in LinAlgError and returns nothing when
\* T11 = 0, which is when [[T01, -1], [T11, 0]] is singular, and otherwise
\* returns the reflectance and transmittance with
\* T01 reflectance - transmittance = -s T00 and T11 reflectance = -s T10.
C8_SolvesOrSingular ==
    ret.op = "solvePropagation" =>
        LET T == ret.args[1]
            s == ret.args[2]
        IN  /\ T[2][2] = Zero <=> Det(<<<<T[1][2], CNeg(One)>>, <<T[2][2], Zero>>>>) = Zero
            /\ IF T[2][2] = Zero
               THEN ret.outcome = "LinAlgError" /\ ret.value = <<>>
               ELSE /\ ret.outcome = "ok"
                    /\ Len(ret.value) = 2
                    /\ CSub(CMul(T[1][2], ret.value[1]), ret.value[2])
                          = CNeg(CMul(s, T[1][1]))
                    /\ CMul(T[2][2], ret.value[1]) = CNeg(CMul(s, T[2][1]))

\* a pair was returned for an incident field other than 1, with a
\* reflectance and a transmittance that are not 0 and differ
C8_Witness ==
    /\ ret.op = "solvePropagation"
    /\ ret.outcome = "ok"
    /\ ret.args[2] = ImagUnit
    /\ ret.value[1] # Zero
    /\ ret.value[2] # Zero
    /\ ret.value[1] # ret.value[2]

\* what a solver returns when called on the heap hp with the arguments args
Returned(hp, op, args) ==
    LET f == IF op = "findReciprocalTransferMatrix"
             THEN findReciprocalTransferMatrix(hp, args[1], args[2], args[3], args[4])
             ELSE IF op = "findReciprocalTransferMatrixLegacy"
             THEN findReciprocalTransferMatrixLegacy(hp, args[1], args[2], args[3], args[4])
             ELSE findGeneralizedTransferMatrix(hp, args[1], args[2], args[3], args[4],
                                                args[5], args[6], args[7], args[8])
    IN  <<f.outcome, f.value>>

\* C10: after any calls of the three inverse solvers, also calls that end in
\* an error, every default bounding object holds the identity and every
\* bounding object the caller passed holds what it held at the start; the
\* last call returned what it returns on the heap of the start, and with
\* the bounding matrices left out findReciprocalTransferMatrix returned
\* the matrix [[1/conj(t), r/t], [conj(r/t), 1/t]] itself.
C10_DefaultsStayIdentity ==
    /\ \A h \in DefaultObjects : Mat(here, h) = identity2
    /\ \A h \in BoundObjects : Mat(here, h) = Mat(SolveHeap, h)
    /\ ret.op # "none" =>
           <<ret.outcome, ret.value>> = Returned(SolveHeap, ret.op, ret.args)
    /\ (/\ ret.op = "findReciprocalTransferMatrix"
        /\ ret.args[1] # Zero
        /\ ret.args[3] = reciprocalDefaults[1]
        /\ ret.args[4] = reciprocalDefaults[2]) =>
           /\ ret.outcome = "ok"
           /\ ret.value = reciprocalMatrix(ret.args[1], ret.args[2])

\* a later call left one bounding matrix out, passed one that has no
\* inverse, and ended in an error
C10_Witness ==
    /\ ncalls >= 2
    /\ ret.op = "findGeneralizedTransferMatrix"
    /\ ret.args[5] \in BoundObjects
    /\ ret.args[6] = generalizedDefaults[2]
    /\ ret.outcome = "LinAlgError"

====
